---- MODULE Spec2Model ----
(***************************************************************************)
(* Model of pkg/dev/fs.go of direct-csi: the superblock probe ProbeFS and  *)
(* its two decoders ProbeFSEXT4 and ProbeFSXFS, run against a block device *)
(* whose contents an external party may rewrite at any moment.             *)
(*                                                                         *)
(* Go's uint32/uint64 values do not fit the model checker's integers, so a *)
(* number is a little-endian sequence of base-256 digits ("numeral"): a    *)
(* uint32 has 4 digits, a uint64 has 8, and an exact (mathematical) result *)
(* has as many as it needs.                                                *)
(***************************************************************************)
EXTENDS Integers, Sequences, FiniteSets, TLC

VARIABLES device, pc, entry, args, handles, filePos, sb, dret,
          ext4Ret, xfsRet, ret, invoked, readAt, seen, lastRet

vars == <<device, pc, entry, args, handles, filePos, sb, dret,
          ext4Ret, xfsRet, ret, invoked, readAt, seen, lastRet>>

----------------------------------------------------------------------------
(* Numerals *)

Digit(a, i) == IF i <= Len(a) THEN a[i] ELSE 0

\* a mod 256^n, as n digits (also the zero-extension of a shorter numeral)
Ext(a, n) == [i \in 1..n |-> Digit(a, i)]

MaxLen(a, b) == IF Len(a) >= Len(b) THEN Len(a) ELSE Len(b)

\* a and b denote the same number
EqVal(a, b) == Ext(a, MaxLen(a, b)) = Ext(b, MaxLen(a, b))

\* the numeral of a small natural number, n digits
RECURSIVE Num(_, _)
Num(v, n) == IF n = 0 THEN <<>> ELSE <<v % 256>> \o Num(v \div 256, n - 1)

RECURSIVE TwoTo(_)
TwoTo(k) == IF k = 0 THEN 1 ELSE 2 * TwoTo(k - 1)

\* 2^e as n digits (e < 8*n)
Pow2(e, n) == [i \in 1..n |-> IF i = (e \div 8) + 1 THEN TwoTo(e % 8) ELSE 0]

\* 2^e - 1 as n digits (e = 8*n : all ones)
AllOnes(n) == [i \in 1..n |-> 255]

Min(x, y) == IF x <= y THEN x ELSE y
Max(x, y) == IF x >= y THEN x ELSE y

\* the sum of the digit products a[i] * b[k+1-i] for i from lo to hi
RECURSIVE ColSum(_, _, _, _, _)
ColSum(a, b, k, lo, hi) ==
    IF lo > hi THEN 0
    ELSE a[lo] * b[k + 1 - lo] + ColSum(a, b, k, lo + 1, hi)

\* digits k..n of a * b, given the carry into digit k
RECURSIVE MulDigits(_, _, _, _, _)
MulDigits(a, b, k, n, carry) ==
    IF k > n THEN <<>>
    ELSE LET t == ColSum(a, b, k, Max(1, k + 1 - Len(b)), Min(k, Len(a))) + carry
         IN  <<t % 256>> \o MulDigits(a, b, k + 1, n, t \div 256)

\* a * b mod 256^n
MulMod(a, b, n) == MulDigits(a, b, 1, n, 0)

\* a * b, exactly
MulExact(a, b) == MulMod(a, b, Len(a) + Len(b))

\* digits k..n of a + b, given the carry into digit k
RECURSIVE AddDigits(_, _, _, _, _)
AddDigits(a, b, k, n, carry) ==
    IF k > n THEN <<>>
    ELSE LET t == Digit(a, k) + Digit(b, k) + carry
         IN  <<t % 256>> \o AddDigits(a, b, k + 1, n, t \div 256)

\* a + b mod 256^n
AddMod(a, b, n) == AddDigits(a, b, 1, n, 0)

\* a + b, exactly
AddExact(a, b) == AddMod(a, b, MaxLen(a, b) + 1)

\* a < 2^e
Below2(a, e) ==
    \A i \in 1..Len(a) :
        /\ i > (e \div 8) + 1 => a[i] = 0
        /\ i = (e \div 8) + 1 => a[i] < TwoTo(e % 8)

\* the value of a numeral known to be below 256
Small(a) == Digit(a, 1)

----------------------------------------------------------------------------
(* Program constants and values *)

EXT4_SUPER_MAGIC == 61267            \* 0xef53
EXT2_OLD_SUPER_MAGIC == 61265        \* 0xef51
XFS_SUPER_MAGIC == 1480999746        \* 0x58465342

FSTypeEXT4 == "ext4"
FSTypeXFS == "xfs"

ErrNoFS == "ErrNoFS"
ErrNotEXT4 == "ErrNotEXT4"
ErrNotXFS == "ErrNotXFS"
NoErr == "nil"

\* errors of the operating system and of encoding/binary's io.ReadFull
OpenErrors == {"ENOENT"}
SeekErrors == {"ESPIPE"}
ReadErrors == {"EIO"}
HardErrors == OpenErrors \cup SeekErrors \cup ReadErrors
                \cup {"EINVAL", "EOF", "ErrUnexpectedEOF"}

\* the nil pointer
Nil == [nil |-> TRUE]
\* no open file
NoFile == <<>>

FSInfo(t, bs, total, free) ==
    [FSType |-> t, FSBlockSize |-> bs, TotalCapacity |-> total,
     FreeCapacity |-> free, Mounts |-> <<>>]

Result(info, err) == [info |-> info, err |-> err]

\* the fields of the on-disk structures that fs.go reads
EXT4SuperBlock(magic, numBlocks, freeBlocks, logBlockSize) ==
    [Magic |-> magic, NumBlocks |-> numBlocks, FreeBlocks |-> freeBlocks,
     LogBlockSize |-> logBlockSize]

XFSSuperBlock(magic, blockSize, totalBlocks, freeBlocks) ==
    [MagicNumber |-> magic, BlockSize |-> blockSize,
     TotalBlocks |-> totalBlocks, FreeBlocks |-> freeBlocks]

EXT4Is(e) == e.Magic = EXT4_SUPER_MAGIC
XFSIs(x) == x.MagicNumber = XFS_SUPER_MAGIC

----------------------------------------------------------------------------
(* The devices probed: what is readable at a byte position *)

U32(v) == Num(v, 4)
U64(v) == Num(v, 8)

E_blank == EXT4SuperBlock(0, U32(0), U32(0), U32(0))
E_foreign == EXT4SuperBlock(XFS_SUPER_MAGIC % 65536, U32(7), U32(3), U32(2))
E_old == EXT4SuperBlock(EXT2_OLD_SUPER_MAGIC, U32(1000), U32(500), U32(0))
E_4k == EXT4SuperBlock(EXT4_SUPER_MAGIC, U32(1000), U32(500), U32(2))
E_1k == EXT4SuperBlock(EXT4_SUPER_MAGIC, U32(8192), U32(0), U32(0))
E_max == EXT4SuperBlock(EXT4_SUPER_MAGIC, AllOnes(4), Pow2(31, 4), U32(22))
E_wrap == EXT4SuperBlock(EXT4_SUPER_MAGIC, Pow2(31, 4), U32(1), U32(23))
E_pow == EXT4SuperBlock(EXT4_SUPER_MAGIC, U32(1), U32(0), U32(54))
E_log32 == EXT4SuperBlock(EXT4_SUPER_MAGIC, U32(1), U32(1), AllOnes(4))

X_blank == XFSSuperBlock(0, U32(0), U64(0), U64(0))
X_foreign == XFSSuperBlock(EXT4_SUPER_MAGIC, U32(4096), U64(7), U64(3))
X_4k == XFSSuperBlock(XFS_SUPER_MAGIC, U32(4096), U64(1000), U64(10))
X_wrap == XFSSuperBlock(XFS_SUPER_MAGIC, Pow2(31, 4),
                        AddMod(Pow2(33, 8), U64(1), 8), Pow2(33, 8))

\* avail: whether the bytes from the position on are none, fewer than the
\* decoder's structure, or the whole structure
Image(availE, availX, e, x) ==
    [avail |-> [EXT4 |-> availE, XFS |-> availX], ext4 |-> e, xfs |-> x]

NoBytes == Image("none", "none", E_blank, X_blank)

Images ==
    { NoBytes,
      Image("full", "full", E_blank, X_blank),
      Image("full", "full", E_foreign, X_foreign),
      Image("full", "full", E_old, X_blank),
      Image("short", "full", E_blank, X_4k),
      Image("short", "short", E_4k, X_4k),
      Image("full", "short", E_blank, X_4k),
      Image("full", "full", E_4k, X_blank),
      Image("full", "full", E_max, X_blank),
      Image("full", "full", E_wrap, X_blank),
      Image("full", "full", E_pow, X_blank),
      Image("full", "full", E_log32, X_blank),
      Image("full", "full", E_blank, X_4k),
      Image("full", "full", E_blank, X_wrap),
      Image("full", "full", E_4k, X_4k) }

FarImages ==
    { Image("full", "full", E_blank, X_blank),
      Image("full", "full", E_1k, X_blank) }

Zero64 == U64(0)
Positions == {Zero64, U64(1024)}

ImagesAt(p) == IF p = Zero64 THEN Images ELSE FarImages

Devices == {d \in [Positions -> Images \cup FarImages] : \A p \in Positions : d[p] \in ImagesAt(p)}

\* the image readable at position p: past the last position, nothing
ImageAt(d, p) == IF p \in DOMAIN d THEN d[p] ELSE NoBytes

\* <<logicalBlockSize, offsetBlocks>>
ArgPairs ==
    { <<U64(512), U64(0)>>,
      <<U64(512), U64(2)>>,
      <<Pow2(32, 8), Pow2(32, 8)>>,
      <<Pow2(63, 8), U64(1)>> }

Entries == {"ProbeFS", "ProbeFSEXT4", "ProbeFSXFS"}

----------------------------------------------------------------------------
(* The pure parts of the decoders *)

\* mutation: the byte offset taken to be the block offset
SeekOffset_Blocks(logicalBlockSize, offsetBlocks) == Ext(offsetBlocks, 8)

\* int64(logicalBlockSize*offsetBlocks): the uint64 product, reinterpreted
SeekOffset(logicalBlockSize, offsetBlocks) ==
    MulMod(logicalBlockSize, offsetBlocks, 8)

\* the int64 with these 64 bits is negative
Negative(o) == o[8] >= 128

\* what a float64 beyond the uint64 range may convert to: Go leaves the
\* result to the implementation (amd64 gives 2^63, arm64 saturates)
OutOfRange == {Pow2(63, 8), AllOnes(8), Zero64}

\* mutation: the exponent without its 1024-byte base
FSBlockSizes_NoBase(logBlockSize) ==
    IF Below2(logBlockSize, 6) THEN {Pow2(Small(logBlockSize), 8)}
    ELSE OutOfRange

\* uint64(math.Pow(2, float64(10+ext4.LogBlockSize))), the sum in uint32
FSBlockSizes(logBlockSize) ==
    LET e == AddMod(U32(10), logBlockSize, 4)
    IN  IF Below2(e, 6) THEN {Pow2(Small(e), 8)} ELSE OutOfRange

EXT4FSInfo(ext4, fsBlockSize) ==
    FSInfo(FSTypeEXT4, fsBlockSize,
           MulMod(Ext(ext4.NumBlocks, 8), fsBlockSize, 8),
           MulMod(Ext(ext4.FreeBlocks, 8), fsBlockSize, 8))

\* mutation: the total computed from the free block count
XFSFSInfo_Free(xfs) ==
    FSInfo(FSTypeXFS, Ext(xfs.BlockSize, 8),
           MulMod(Ext(xfs.FreeBlocks, 8), Ext(xfs.BlockSize, 8), 8),
           MulMod(Ext(xfs.FreeBlocks, 8), Ext(xfs.BlockSize, 8), 8))


XFSFSInfo(xfs) ==
    FSInfo(FSTypeXFS, Ext(xfs.BlockSize, 8),
           MulMod(Ext(xfs.TotalBlocks, 8), Ext(xfs.BlockSize, 8), 8),
           MulMod(Ext(xfs.FreeBlocks, 8), Ext(xfs.BlockSize, 8), 8))

\* mutation: a plain Read, whose short count goes unnoticed
ReadError_IgnoreShort(avail) == IF avail = "none" THEN "EOF" ELSE NoErr

\* binary.Read of a structure of which `avail` bytes can be had
ReadError(avail) ==
    IF avail = "none" THEN "EOF"
    ELSE IF avail = "short" THEN "ErrUnexpectedEOF"
    ELSE NoErr

\* mutation: a device once found empty is remembered as empty
ReadDevice_Cached(d, p) ==
    IF lastRet # Nil /\ lastRet.err = ErrNoFS
    THEN [ImageAt(d, p) EXCEPT !.ext4 = E_blank, !.xfs = X_blank]
    ELSE ImageAt(d, p)

\* the contents the decoder's read gets from the device
ReadDevice(d, p) == ImageAt(d, p)

\* the part of an image that decoder dec ("EXT4", "XFS") reads
View(img, dec) ==
    [avail |-> img.avail[dec], sb |-> IF dec = "EXT4" THEN img.ext4 ELSE img.xfs]

----------------------------------------------------------------------------
(* The state *)

Init ==
    /\ device \in Devices
    /\ pc = "idle"
    /\ entry = "none"
    /\ args = <<Zero64, Zero64>>
    /\ handles = 0
    /\ filePos = NoFile
    /\ sb = Nil
    /\ dret = Nil
    /\ ext4Ret = Nil
    /\ xfsRet = Nil
    /\ ret = Nil
    /\ invoked = <<>>
    /\ readAt = <<>>
    /\ seen = <<>>
    /\ lastRet = Nil

\* another process rewrites the device (formats it, wipes it, truncates it)
DeviceWrite ==
    /\ \E p \in Positions : \E img \in ImagesAt(p) :
          /\ img # device[p]
          /\ device' = [device EXCEPT ![p] = img]
    /\ UNCHANGED <<pc, entry, args, handles, filePos, sb, dret, ext4Ret,
                   xfsRet, ret, invoked, readAt, seen, lastRet>>

\* a caller calls one of the three exported functions
Call ==
    /\ pc = "idle"
    /\ \E f \in Entries : \E a \in ArgPairs :
          /\ entry' = f
          /\ args' = a
          /\ pc' = CASE f = "ProbeFS" -> "p_ext4"
                     [] f = "ProbeFSEXT4" -> "ext4_open"
                     [] f = "ProbeFSXFS" -> "xfs_open"
          /\ invoked' = IF f = "ProbeFS" THEN <<>>
                        ELSE IF f = "ProbeFSEXT4" THEN <<"EXT4">> ELSE <<"XFS">>
    /\ sb' = Nil /\ dret' = Nil /\ ext4Ret' = Nil /\ xfsRet' = Nil
    /\ ret' = Nil /\ readAt' = <<>> /\ seen' = <<>>
    /\ UNCHANGED <<device, handles, filePos, lastRet>>

\* mutation: no deferred Close
Deferred_Leak(h, fp) == h

\* defer devFile.Close(): registered once the open succeeded
Deferred(h, fp) == IF fp # NoFile THEN h - 1 ELSE h

----------------------------------------------------------------------------
(* ProbeFSEXT4 *)

\* devFile, err := os.OpenFile(...); defer devFile.Close()
EXT4Open ==
    /\ pc = "ext4_open"
    /\ \/ /\ handles' = handles + 1
          /\ filePos' = Zero64
          /\ pc' = "ext4_seek"
          /\ dret' = dret
       \/ /\ \E e \in OpenErrors : dret' = Result(Nil, e)
          /\ pc' = "ext4_ret"
          /\ UNCHANGED <<handles, filePos>>
    /\ UNCHANGED <<device, entry, args, sb, ext4Ret, xfsRet, ret, invoked,
                   readAt, seen, lastRet>>

\* devFile.Seek(int64(logicalBlockSize*offsetBlocks), os.SEEK_CUR)
EXT4Seek ==
    /\ pc = "ext4_seek"
    /\ LET off == SeekOffset(args[1], args[2])
       IN  IF Negative(off)
           THEN /\ dret' = Result(Nil, "EINVAL")
                /\ pc' = "ext4_ret"
                /\ filePos' = filePos
           ELSE \/ /\ filePos' = AddMod(filePos, off, 8)
                   /\ pc' = "ext4_read"
                   /\ dret' = dret
                \/ /\ \E e \in SeekErrors : dret' = Result(Nil, e)
                   /\ pc' = "ext4_ret"
                   /\ filePos' = filePos
    /\ UNCHANGED <<device, entry, args, handles, sb, ext4Ret, xfsRet, ret,
                   invoked, readAt, seen, lastRet>>

\* binary.Read(devFile, binary.LittleEndian, ext4)
EXT4Read ==
    /\ pc = "ext4_read"
    /\ LET img == ReadDevice(device, filePos)
           err == ReadError(img.avail.EXT4)
       IN  \/ /\ err = NoErr
              /\ sb' = img.ext4
              /\ pc' = "ext4_check"
              /\ dret' = dret
           \/ /\ err # NoErr
              /\ dret' = Result(Nil, err)
              /\ pc' = "ext4_ret"
              /\ sb' = sb
           \/ /\ \E e \in ReadErrors : dret' = Result(Nil, e)
              /\ pc' = "ext4_ret"
              /\ sb' = sb
    /\ readAt' = Append(readAt, [dec |-> "EXT4", pos |-> filePos])
    /\ seen' = Append(seen, View(ImageAt(device, filePos), "EXT4"))
    /\ UNCHANGED <<device, entry, args, handles, filePos, ext4Ret, xfsRet,
                   ret, invoked, lastRet>>

\* if !ext4.Is() { return nil, ErrNotEXT4 }; build and return the FSInfo
EXT4Decode(ext4) ==
    IF ~EXT4Is(ext4) THEN {Result(Nil, ErrNotEXT4)}
    ELSE {Result(EXT4FSInfo(ext4, bs), NoErr) :
              bs \in FSBlockSizes(ext4.LogBlockSize)}

EXT4Check ==
    /\ pc = "ext4_check"
    /\ dret' \in EXT4Decode(sb)
    /\ pc' = "ext4_ret"
    /\ UNCHANGED <<device, entry, args, handles, filePos, sb, ext4Ret, xfsRet,
                   ret, invoked, readAt, seen, lastRet>>

\* the deferred devFile.Close() runs, and the decoder returns to its caller
EXT4Return ==
    /\ pc = "ext4_ret"
    /\ handles' = Deferred(handles, filePos)
    /\ filePos' = NoFile
    /\ IF entry = "ProbeFS"
       THEN ext4Ret' = dret /\ pc' = "p_after_ext4" /\ ret' = ret
       ELSE ret' = dret /\ pc' = "done" /\ ext4Ret' = ext4Ret
    /\ UNCHANGED <<device, entry, args, sb, dret, xfsRet, invoked, readAt,
                   seen, lastRet>>

----------------------------------------------------------------------------
(* ProbeFSXFS *)

\* devFile, err := os.OpenFile(...); defer devFile.Close()
XFSOpen ==
    /\ pc = "xfs_open"
    /\ \/ /\ handles' = handles + 1
          /\ filePos' = Zero64
          /\ pc' = "xfs_seek"
          /\ dret' = dret
       \/ /\ \E e \in OpenErrors : dret' = Result(Nil, e)
          /\ pc' = "xfs_ret"
          /\ UNCHANGED <<handles, filePos>>
    /\ UNCHANGED <<device, entry, args, sb, ext4Ret, xfsRet, ret, invoked,
                   readAt, seen, lastRet>>

\* devFile.Seek(int64(logicalBlockSize*offsetBlocks), os.SEEK_CUR)
XFSSeek ==
    /\ pc = "xfs_seek"
    /\ LET off == SeekOffset(args[1], args[2])
       IN  IF Negative(off)
           THEN /\ dret' = Result(Nil, "EINVAL")
                /\ pc' = "xfs_ret"
                /\ filePos' = filePos
           ELSE \/ /\ filePos' = AddMod(filePos, off, 8)
                   /\ pc' = "xfs_read"
                   /\ dret' = dret
                \/ /\ \E e \in SeekErrors : dret' = Result(Nil, e)
                   /\ pc' = "xfs_ret"
                   /\ filePos' = filePos
    /\ UNCHANGED <<device, entry, args, handles, sb, ext4Ret, xfsRet, ret,
                   invoked, readAt, seen, lastRet>>

\* binary.Read(devFile, binary.BigEndian, xfs)
XFSRead ==
    /\ pc = "xfs_read"
    /\ LET img == ReadDevice(device, filePos)
           err == ReadError(img.avail.XFS)
       IN  \/ /\ err = NoErr
              /\ sb' = img.xfs
              /\ pc' = "xfs_check"
              /\ dret' = dret
           \/ /\ err # NoErr
              /\ dret' = Result(Nil, err)
              /\ pc' = "xfs_ret"
              /\ sb' = sb
           \/ /\ \E e \in ReadErrors : dret' = Result(Nil, e)
              /\ pc' = "xfs_ret"
              /\ sb' = sb
    /\ readAt' = Append(readAt, [dec |-> "XFS", pos |-> filePos])
    /\ seen' = Append(seen, View(ImageAt(device, filePos), "XFS"))
    /\ UNCHANGED <<device, entry, args, handles, filePos, ext4Ret, xfsRet,
                   ret, invoked, lastRet>>

\* mutation: the magic is not checked
XFSDecode_NoCheck(xfs) == {Result(XFSFSInfo(xfs), NoErr)}

\* if !xfs.Is() { return nil, ErrNotXFS }; build and return the FSInfo
XFSDecode(xfs) ==
    IF ~XFSIs(xfs) THEN {Result(Nil, ErrNotXFS)}
    ELSE {Result(XFSFSInfo(xfs), NoErr)}

XFSCheck ==
    /\ pc = "xfs_check"
    /\ dret' \in XFSDecode(sb)
    /\ pc' = "xfs_ret"
    /\ UNCHANGED <<device, entry, args, handles, filePos, sb, ext4Ret, xfsRet,
                   ret, invoked, readAt, seen, lastRet>>

\* the deferred devFile.Close() runs, and the decoder returns to its caller
XFSReturn ==
    /\ pc = "xfs_ret"
    /\ handles' = Deferred(handles, filePos)
    /\ filePos' = NoFile
    /\ IF entry = "ProbeFS"
       THEN xfsRet' = dret /\ pc' = "p_after_xfs" /\ ret' = ret
       ELSE ret' = dret /\ pc' = "done" /\ xfsRet' = xfsRet
    /\ UNCHANGED <<device, entry, args, sb, dret, ext4Ret, invoked, readAt,
                   seen, lastRet>>

----------------------------------------------------------------------------
(* ProbeFS *)

\* mutation: a match does not end the probe
AfterEXT4_NoShortCircuit(r) ==
    IF r.err # NoErr /\ r.err # ErrNotEXT4 THEN Result(Nil, r.err) ELSE Nil

\* mutation: a failed EXT4 attempt is treated as a mismatch
AfterEXT4_Swallow(r) ==
    IF r.info # Nil THEN Result(r.info, NoErr) ELSE Nil

\* what ProbeFS does with ProbeFSEXT4's return: Nil stands for "go on"
AfterEXT4(r) ==
    IF r.err # NoErr /\ r.err # ErrNotEXT4 THEN Result(Nil, r.err)
    ELSE IF r.info # Nil THEN Result(r.info, NoErr)
    ELSE Nil

\* mutation: any failed XFS attempt ends as "no filesystem"
AfterXFS_Mask(r) ==
    IF r.info # Nil THEN Result(r.info, NoErr) ELSE Result(Nil, ErrNoFS)

\* what ProbeFS does with ProbeFSXFS's return
AfterXFS(r) ==
    IF r.err # NoErr /\ r.err # ErrNotXFS THEN Result(Nil, r.err)
    ELSE IF r.info # Nil THEN Result(r.info, NoErr)
    ELSE Result(Nil, ErrNoFS)

\* ext4FSInfo, err := ProbeFSEXT4(devName, logicalBlockSize, offsetBlocks)
ProbeFSCallEXT4 ==
    /\ pc = "p_ext4"
    /\ invoked' = Append(invoked, "EXT4")
    /\ pc' = "ext4_open"
    /\ UNCHANGED <<device, entry, args, handles, filePos, sb, dret, ext4Ret,
                   xfsRet, ret, readAt, seen, lastRet>>

ProbeFSAfterEXT4 ==
    /\ pc = "p_after_ext4"
    /\ IF AfterEXT4(ext4Ret) # Nil
       THEN ret' = AfterEXT4(ext4Ret) /\ pc' = "done"
       ELSE ret' = ret /\ pc' = "p_xfs"
    /\ UNCHANGED <<device, entry, args, handles, filePos, sb, dret, ext4Ret,
                   xfsRet, invoked, readAt, seen, lastRet>>

\* XFSInfo, err := ProbeFSXFS(devName, logicalBlockSize, offsetBlocks)
ProbeFSCallXFS ==
    /\ pc = "p_xfs"
    /\ invoked' = Append(invoked, "XFS")
    /\ pc' = "xfs_open"
    /\ sb' = Nil
    /\ dret' = Nil
    /\ UNCHANGED <<device, entry, args, handles, filePos, ext4Ret,
                   xfsRet, ret, readAt, seen, lastRet>>

ProbeFSAfterXFS ==
    /\ pc = "p_after_xfs"
    /\ ret' = AfterXFS(xfsRet)
    /\ pc' = "done"
    /\ UNCHANGED <<device, entry, args, handles, filePos, sb, dret, ext4Ret,
                   xfsRet, invoked, readAt, seen, lastRet>>

\* the caller has the result
Return ==
    /\ pc = "done"
    /\ lastRet' = ret
    /\ pc' = "idle"
    /\ UNCHANGED <<device, entry, args, handles, filePos, sb, dret, ext4Ret,
                   xfsRet, ret, invoked, readAt, seen>>

Next ==
    \/ DeviceWrite
    \/ Call
    \/ EXT4Open \/ EXT4Seek \/ EXT4Read \/ EXT4Check \/ EXT4Return
    \/ XFSOpen \/ XFSSeek \/ XFSRead \/ XFSCheck \/ XFSReturn
    \/ ProbeFSCallEXT4 \/ ProbeFSAfterEXT4 \/ ProbeFSCallXFS \/ ProbeFSAfterXFS
    \/ Return

Spec == Init /\ [][Next]_vars

----------------------------------------------------------------------------
(* Properties *)

InProbeFS == entry = "ProbeFS"
Finished == pc = "done"
Hard(r) == r # Nil /\ r.err \in HardErrors
Found(r) == r # Nil /\ r.info # Nil
EXT4Pcs == {"ext4_open", "ext4_seek", "ext4_read", "ext4_check", "ext4_ret"}
XFSPcs == {"xfs_open", "xfs_seek", "xfs_read", "xfs_check", "xfs_ret"}

\* C1: ProbeFS invokes ProbeFSEXT4 first and ProbeFSXFS only after it; once
\* the EXT4 attempt has returned an FSInfo, ProbeFS returns that FSInfo and
\* the XFS decoder is never invoked: the device is opened and read once.
C1_EXT4BeforeXFS ==
    InProbeFS =>
        /\ invoked \in {<<>>, <<"EXT4">>, <<"EXT4", "XFS">>}
        /\ pc \in XFSPcs => invoked = <<"EXT4", "XFS">> /\ ext4Ret # Nil
        /\ \A i \in 1..Len(readAt) :
              readAt[i].dec = "XFS" => i = 2 /\ readAt[1].dec = "EXT4"
        /\ Found(ext4Ret) =>
              /\ invoked = <<"EXT4">>
              /\ Len(readAt) = 1
              /\ pc \in {"p_after_ext4", "done", "idle"}
              /\ handles = 0
              /\ xfsRet = Nil
              /\ pc # "p_after_ext4" => ret = Result(ext4Ret.info, NoErr)

\* an EXT4 match returned from a device that also holds a valid XFS superblock
C1_Witness ==
    /\ InProbeFS /\ Finished
    /\ Found(ext4Ret)
    /\ ret.info.FSType = FSTypeEXT4
    /\ XFSIs(ImageAt(device, readAt[1].pos).xfs)
    /\ ImageAt(device, readAt[1].pos).avail.XFS = "full"

\* C2: ProbeFS returns ErrNoFS exactly when the EXT4 attempt ended in
\* ErrNotEXT4 and the XFS attempt then ended in ErrNotXFS; it never returns
\* ErrNotEXT4 or ErrNotXFS, and never ErrNoFS after a device-access error.
C2_NoFSOnlyAfterTwoMismatches ==
    (InProbeFS /\ Finished) =>
        /\ ret.err = ErrNoFS <=>
              /\ ext4Ret # Nil /\ ext4Ret.err = ErrNotEXT4
              /\ xfsRet # Nil /\ xfsRet.err = ErrNotXFS
        /\ ret.err \notin {ErrNotEXT4, ErrNotXFS}
        /\ (Hard(ext4Ret) \/ Hard(xfsRet)) => ret.err # ErrNoFS

\* ProbeFS has returned ErrNoFS
C2_Witness ==
    /\ InProbeFS /\ Finished
    /\ ret = Result(Nil, ErrNoFS)
    /\ Len(seen) = 2

\* C3: a device-access error of the EXT4 attempt is returned by ProbeFS as it
\* is, with no FSInfo and with no XFS attempt; after an EXT4 mismatch, a
\* device-access error of the XFS attempt is returned as it is.
C3_HardErrorsPropagate ==
    InProbeFS =>
        /\ Hard(ext4Ret) =>
              /\ invoked = <<"EXT4">>
              /\ xfsRet = Nil
              /\ pc \in {"p_after_ext4", "done", "idle"}
              /\ pc # "p_after_ext4" => ret = Result(Nil, ext4Ret.err)
        /\ (Finished /\ ext4Ret # Nil /\ ext4Ret.err = ErrNotEXT4 /\ Hard(xfsRet)) =>
              ret = Result(Nil, xfsRet.err)

\* the EXT4 attempt failed on a device whose XFS superblock is valid
C3_Witness ==
    /\ InProbeFS /\ Finished
    /\ Hard(ext4Ret)
    /\ Len(seen) = 1
    /\ XFSIs(ImageAt(device, readAt[1].pos).xfs)
    /\ ret.err = "ErrUnexpectedEOF"

\* C4: a handle is open only inside a decoder, between its open and its
\* return; at most one is open at any time, and none once a call returned.
C4_HandlesClosed ==
    /\ handles \in {0, 1}
    /\ handles = 1 <=> filePos # NoFile
    /\ pc \notin (EXT4Pcs \cup XFSPcs) => handles = 0
    /\ pc \in {"ext4_seek", "ext4_read", "ext4_check",
               "xfs_seek", "xfs_read", "xfs_check"} => handles = 1

\* both decoders opened the device, the second ended in a mismatch, and
\* nothing is left open
C4_Witness ==
    /\ InProbeFS /\ Finished
    /\ Len(readAt) = 2
    /\ xfsRet # Nil /\ xfsRet.err = ErrNotXFS
    /\ handles = 0

\* the read of decoder dec in this call, 0 if there is none
ReadOf(dec) ==
    IF \E i \in 1..Len(readAt) : readAt[i].dec = dec
    THEN CHOOSE i \in 1..Len(readAt) : readAt[i].dec = dec
    ELSE 0

Truncated(dec) == ReadOf(dec) # 0 /\ seen[ReadOf(dec)].avail # "full"

\* C5: a decoder that found fewer bytes than its structure returns a
\* device-access error and no FSInfo, never ErrNotEXT4 or ErrNotXFS; ProbeFS
\* then returns that error, never ErrNoFS.
C5_TruncatedIsHard ==
    /\ (pc = "ext4_ret" /\ Truncated("EXT4")) =>
            /\ Hard(dret) /\ dret.info = Nil
            /\ dret.err \in {"EOF", "ErrUnexpectedEOF"} \cup ReadErrors
    /\ (pc = "xfs_ret" /\ Truncated("XFS")) =>
            /\ Hard(dret) /\ dret.info = Nil
            /\ dret.err \in {"EOF", "ErrUnexpectedEOF"} \cup ReadErrors
    /\ pc \in {"ext4_check"} => ~Truncated("EXT4")
    /\ pc \in {"xfs_check"} => ~Truncated("XFS")
    /\ (Finished /\ (Truncated("EXT4") \/ Truncated("XFS"))) =>
            /\ Hard(ret) /\ ret.info = Nil
            /\ InProbeFS => ret = (IF Truncated("EXT4") THEN ext4Ret ELSE xfsRet)

\* ProbeFS met a device too short for the XFS structure after an EXT4 mismatch
C5_Witness ==
    /\ InProbeFS /\ Finished
    /\ Len(seen) = 2
    /\ seen[2].avail = "short"
    /\ ret = Result(Nil, "ErrUnexpectedEOF")

\* x = 2^e, for a uint64 x and an exact numeral e
IsTwoToThe(x, e) == Below2(e, 6) /\ x = Pow2(Small(e), 8)

\* the fields of info are exactly those the EXT4 format defines for ext4
ExactEXT4(ext4, info) ==
    /\ info.FSType = FSTypeEXT4
    /\ IsTwoToThe(info.FSBlockSize, AddExact(U32(10), ext4.LogBlockSize))
    /\ EqVal(info.TotalCapacity, MulExact(ext4.NumBlocks, info.FSBlockSize))
    /\ EqVal(info.FreeCapacity, MulExact(ext4.FreeBlocks, info.FSBlockSize))
    /\ info.Mounts = <<>>

\* LogBlockSize <= 53, and both capacities are below 2^64
FitsUint64(ext4) ==
    /\ Below2(ext4.LogBlockSize, 6)
    /\ Small(ext4.LogBlockSize) <= 53
    /\ LET bs == Pow2(10 + Small(ext4.LogBlockSize), 8)
       IN  /\ Below2(MulExact(ext4.NumBlocks, bs), 64)
           /\ Below2(MulExact(ext4.FreeBlocks, bs), 64)

\* C6 as stated: for every superblock with the EXT4 magic, ProbeFSEXT4 reports
\* FSBlockSize = 2^(10+LogBlockSize), TotalCapacity = NumBlocks * FSBlockSize
\* and FreeCapacity = FreeBlocks * FSBlockSize, exactly, tagged EXT4.
C6_Original ==
    (pc = "ext4_ret" /\ sb # Nil) =>
        /\ EXT4Is(sb) => Found(dret)
        /\ Found(dret) => ExactEXT4(sb, dret.info)

\* C6 amended: the same for every superblock with the EXT4 magic whose
\* LogBlockSize is at most 53 and whose two capacities are below 2^64; one
\* with LogBlockSize = 2 is reported with FSBlockSize 4096.
C6_ExactWhenItFits ==
    (pc = "ext4_ret" /\ sb # Nil) =>
        /\ EXT4Is(sb) => Found(dret)
        /\ (Found(dret) /\ FitsUint64(sb)) => ExactEXT4(sb, dret.info)
        /\ (Found(dret) /\ sb.LogBlockSize = U32(2)) =>
              dret.info.FSBlockSize = U64(4096)

\* the largest capacities of the model that fit: 2^32 - 1 blocks of 2^32 bytes
C6_Witness ==
    /\ pc = "ext4_ret"
    /\ sb = E_max
    /\ Found(dret)
    /\ dret.info.FSBlockSize = Pow2(32, 8)

Decoded(v, dec) ==
    IF v.avail # "full" THEN {Result(Nil, ReadError(v.avail))}
    ELSE IF dec = "EXT4" THEN EXT4Decode(v.sb) ELSE XFSDecode(v.sb)

\* C9: a read gets what the device holds at that moment; a ProbeFS call that
\* was not stopped by open or seek reads the device anew; and what it returns
\* is decided by what this call read, whatever the previous call returned.
C9_NoStateNoCache ==
    /\ pc \in {"ext4_check", "xfs_check"} =>
          /\ Len(seen) >= 1
          /\ seen[Len(seen)].avail = "full"
          /\ sb = seen[Len(seen)].sb
    /\ (InProbeFS /\ Finished) =>
          /\ ret.err \notin (OpenErrors \cup SeekErrors \cup {"EINVAL"}) =>
                Len(seen) >= 1 /\ readAt[1].dec = "EXT4"
          /\ ret.err \notin (HardErrors \ {"EOF", "ErrUnexpectedEOF"}) =>
                \/ ret \in Decoded(seen[1], "EXT4") /\ ret.err # ErrNotEXT4
                \/ /\ Result(Nil, ErrNotEXT4) \in Decoded(seen[1], "EXT4")
                   /\ Len(seen) = 2
                   /\ \/ ret \in Decoded(seen[2], "XFS") /\ ret.err # ErrNotXFS
                      \/ /\ Result(Nil, ErrNotXFS) \in Decoded(seen[2], "XFS")
                         /\ ret = Result(Nil, ErrNoFS)

\* the call before found no filesystem, and this one finds the new one
C9_Witness ==
    /\ InProbeFS /\ Finished
    /\ lastRet = Result(Nil, ErrNoFS)
    /\ Found(ret)
    /\ ret.info.FSType = FSTypeXFS

\* logicalBlockSize * offsetBlocks, exactly
ExactOffset == MulExact(args[1], args[2])

\* the open file of a decoder has been moved to its read position
Positioned == pc \in {"ext4_read", "ext4_check", "xfs_read", "xfs_check"}

\* every read of this call, and the open file once positioned, is at o
AllAt(o) ==
    /\ \A i \in 1..Len(readAt) : EqVal(readAt[i].pos, o)
    /\ Positioned => EqVal(filePos, o)

\* C10 as stated: for every pair of arguments each decoder reads at exactly
\* logicalBlockSize * offsetBlocks bytes from the start of the device.
C10_Original ==
    (Positioned \/ Len(readAt) > 0) => AllAt(ExactOffset)

\* C10 amended: that holds whenever the product is below 2^63; a product from
\* 2^63 on is reduced modulo 2^64 and, if then still 2^63 or more, seeks
\* nowhere and nothing is read. The two decoders of one ProbeFS call read at
\* the same position.
C10_ExactBelow2To63 ==
    (Positioned \/ Len(readAt) > 0) =>
        LET exact == ExactOffset
        IN  /\ Below2(exact, 63) => AllAt(exact)
            /\ AllAt(Ext(exact, 8))
            /\ \A i \in 1..Len(readAt) : Below2(readAt[i].pos, 63)
            /\ \A i, j \in 1..Len(readAt) : readAt[i].pos = readAt[j].pos

\* both decoders read at byte 1024 = 512 * 2
C10_Witness ==
    /\ InProbeFS
    /\ args = <<U64(512), U64(2)>>
    /\ Len(readAt) = 2
    /\ readAt[1].pos = U64(1024)
    /\ readAt[2].pos = U64(1024)

====
